---- MODULE Spec2Model ----
(***************************************************************************)
(* The component-tree store of the email editor (EditorContext: the        *)
(* reducer editorReducer and the command callbacks of EditorProvider) and  *)
(* the property registry (componentDefaults).                              *)
(*                                                                         *)
(* A JS object is a function whose DOMAIN is its set of keys.  A node's    *)
(* `children` is either an array or undefined: the field children holds    *)
(* the array and childrenIsArray tells whether it is one.  A reducer call  *)
(* that throws leaves the store's state as it was; the variable error      *)
(* records what the last command raised.                                   *)
(***************************************************************************)
EXTENDS Integers, Sequences, FiniteSets, TLC

\* ---------------------------------------------------------------- bounds
\* number of component ids generateComponentId can hand out
MaxNodes == 6
\* number of commands issued to the store
MaxSteps == 3
\* largest index argument of a command
MaxIndex == 2

\* ------------------------------------------------------------ identifiers
RootId == "root"
\* the JS value undefined, where an id is expected
Undefined == "undefined"
IdNames == <<"c1", "c2", "c3", "c4", "c5", "c6", "c7", "c8">>
CompIds == {IdNames[i] : i \in 1..MaxNodes}
Ids == {RootId} \cup CompIds

Min(a, b) == IF a < b THEN a ELSE b
Max(a, b) == IF a > b THEN a ELSE b

\* ------------------------------------------------------ property registry
Padding(t, r, b, l) == [top |-> t, right |-> r, bottom |-> b, left |-> l]

getDefaultProperties(type) ==
  CASE type = "root" -> [maxWidth |-> 600]
    [] type = "text" ->
         [text |-> "Enter your text here", fontSize |-> 16, color |-> "#333333",
          fontWeight |-> "normal", textAlign |-> "left", lineHeightTenths |-> 16,
          padding |-> Padding(10, 20, 10, 20)]
    [] type = "heading" ->
         [text |-> "Heading", level |-> 2, fontSize |-> 28, color |-> "#333333",
          fontWeight |-> "bold", textAlign |-> "left",
          padding |-> Padding(20, 20, 10, 20)]
    [] type = "button" ->
         [text |-> "Click me", url |-> "#", backgroundColor |-> "#007bff",
          textColor |-> "#ffffff", fontSize |-> 16,
          padding |-> Padding(12, 24, 12, 24), borderRadius |-> 4,
          textAlign |-> "center"]
    [] type = "image" ->
         [src |-> "https://placehold.co/600x400", alt |-> "Image", width |-> 600,
          href |-> "null", textAlign |-> "center", fitToContainer |-> TRUE]
    [] type = "divider" ->
         [color |-> "#dddddd", height |-> 1, width |-> "100%",
          margin |-> [top |-> 20, bottom |-> 20]]
    [] type = "spacer" -> [height |-> 20]
    [] type = "columns" ->
         [columns |-> 2, gap |-> 16, padding |-> Padding(10, 10, 10, 10),
          backgroundColor |-> "#ffffff", borderRadius |-> 0]
    [] type = "column" ->
         [padding |-> Padding(10, 10, 10, 10), backgroundColor |-> "#ffffff",
          borderRadius |-> 0]
    [] OTHER -> <<>>

canHaveChildren(type) == type \in {"root", "columns", "column"}

\* ------------------------------------------------------------- JS helpers
\* {...a, ...b}
Spread(a, b) ==
  [k \in (DOMAIN a) \cup (DOMAIN b) |-> IF k \in DOMAIN b THEN b[k] ELSE a[k]]

\* the position Array.prototype.splice(start, ...) acts at
SpliceStart(len, start) ==
  IF start < 0 THEN Max(len + start, 0) ELSE Min(start, len)

\* arr.splice(start, 1, x) in the place of arr.splice(start, 0, x): the entry
\* at start is overwritten
SpliceInsert_Overwrite(arr, start, x) ==
  LET k == SpliceStart(Len(arr), start)
  IN SubSeq(arr, 1, k) \o <<x>> \o SubSeq(arr, k + 2, Len(arr))

\* arr.splice(start, 0, x): the array afterwards
SpliceInsert(arr, start, x) ==
  LET k == SpliceStart(Len(arr), start)
  IN SubSeq(arr, 1, k) \o <<x>> \o SubSeq(arr, k + 1, Len(arr))

\* arr.splice(start, 1): the removed elements and the array afterwards
SpliceDeleteOne(arr, start) ==
  LET k == SpliceStart(Len(arr), start)
  IN IF k < Len(arr)
       THEN [removed |-> <<arr[k + 1]>>,
             rest |-> SubSeq(arr, 1, k) \o SubSeq(arr, k + 2, Len(arr))]
       ELSE [removed |-> <<>>, rest |-> arr]

\* arr.splice(start): the removed elements and the array afterwards
SpliceTail(arr, start) ==
  LET k == SpliceStart(Len(arr), start)
  IN [removed |-> SubSeq(arr, k + 1, Len(arr)), rest |-> SubSeq(arr, 1, k)]

\* arr.filter((id) => id !== x)
FilterOut(arr, x) == SelectSeq(arr, LAMBDA e : e # x)

Has(tree, id) == id \in DOMAIN tree

Delete(tree, id) == [k \in (DOMAIN tree) \ {id} |-> tree[k]]

Put(tree, id, node) ==
  [k \in (DOMAIN tree) \cup {id} |-> IF k = id THEN node ELSE tree[k]]

\* -------------------------------------------------------------- the store
initialState ==
  [componentTree |->
     (RootId :> [id |-> RootId, type |-> "root", parentId |-> Undefined,
                 properties |-> getDefaultProperties("root"),
                 childrenIsArray |-> TRUE, children |-> <<>>]),
   selectedComponentId |-> "null"]

Ok(state) == [state |-> state, error |-> "none"]
Throw(state, e) == [state |-> state, error |-> e]

\* removeRecursively(tree, componentId).  stack holds the ids whose call is
\* still running: reaching one of them again repeats that call on the same
\* tree, so the recursion never ends and the engine raises RangeError.
RECURSIVE removeRecursively(_, _, _)
RECURSIVE removeEach(_, _, _)

\* removeRecursively without the descent into the children
removeRecursively_Shallow(res, componentId, stack) ==
  IF res.overflow \/ ~Has(res.tree, componentId) THEN res
  ELSE [res EXCEPT !.tree = Delete(res.tree, componentId)]

removeRecursively(res, componentId, stack) ==
  IF res.overflow \/ ~Has(res.tree, componentId) THEN res
  ELSE IF componentId \in stack THEN [res EXCEPT !.overflow = TRUE]
  ELSE LET component == res.tree[componentId]
           after == IF component.childrenIsArray /\ Len(component.children) > 0
                      THEN removeEach(res, component.children,
                                      stack \cup {componentId})
                      ELSE res
       IN IF after.overflow THEN after
          ELSE [after EXCEPT !.tree = Delete(after.tree, componentId)]

removeEach(res, ids, stack) ==
  IF ids = <<>> THEN res
  ELSE removeEach(removeRecursively(res, Head(ids), stack), Tail(ids), stack)

RemoveTree(tree, componentId) ==
  removeRecursively([tree |-> tree, overflow |-> FALSE], componentId, {})

RemoveAll(tree, ids) ==
  removeEach([tree |-> tree, overflow |-> FALSE], ids, {})

\* case ACTIONS.ADD_COMPONENT; index is <<>> when undefined, <<i>> otherwise
ReduceAdd(state, component, parentId, index) ==
  LET newTree == Put(state.componentTree, component.id,
                     [component EXCEPT !.parentId = parentId])
  IN IF ~Has(newTree, parentId) \/ ~newTree[parentId].childrenIsArray
       THEN Throw(state, "TypeError")
       ELSE LET parent == newTree[parentId]
                newChildren == IF index # <<>>
                                 THEN SpliceInsert(parent.children, index[1], component.id)
                                 ELSE Append(parent.children, component.id)
            IN Ok([componentTree |->
                     Put(newTree, parentId, [parent EXCEPT !.children = newChildren]),
                   selectedComponentId |-> component.id])

\* case ACTIONS.REMOVE_COMPONENT
ReduceRemove(state, componentId) ==
  LET newTree == state.componentTree
  IN IF ~Has(newTree, componentId) THEN Ok(state)
     ELSE LET component == newTree[componentId]
          IN IF ~Has(newTree, component.parentId)
                  \/ ~newTree[component.parentId].childrenIsArray
               THEN Throw(state, "TypeError")
               ELSE LET parent == newTree[component.parentId]
                        detached == Put(newTree, component.parentId,
                                        [parent EXCEPT !.children =
                                           FilterOut(parent.children, componentId)])
                        removed == RemoveTree(detached, componentId)
                    IN IF removed.overflow THEN Throw(state, "RangeError")
                       ELSE Ok([componentTree |-> removed.tree,
                                selectedComponentId |->
                                  IF state.selectedComponentId = componentId
                                    THEN "null" ELSE state.selectedComponentId])

\* case ACTIONS.UPDATE_COMPONENT with updates = {properties: patch}
ReduceUpdate(state, componentId, patch) ==
  IF ~Has(state.componentTree, componentId) THEN Ok(state)
  ELSE LET component == state.componentTree[componentId]
       IN Ok([state EXCEPT !.componentTree =
                Put(state.componentTree, componentId,
                    [component EXCEPT !.properties = Spread(component.properties, patch)])])

\* REORDER_COMPONENTS taking newIndex as a position of the array before the
\* removal: one less when it lies behind oldIndex
ReduceReorder_Adjusted(state, parentId, oldIndex, newIndex) ==
  IF ~Has(state.componentTree, parentId)
       \/ ~state.componentTree[parentId].childrenIsArray
    THEN Ok(state)
    ELSE LET parent == state.componentTree[parentId]
             cut == SpliceDeleteOne(parent.children, oldIndex)
             movedId == IF cut.removed = <<>> THEN Undefined ELSE cut.removed[1]
             newChildren == SpliceInsert(cut.rest,
                                         IF newIndex > oldIndex THEN newIndex - 1
                                         ELSE newIndex,
                                         movedId)
         IN Ok([state EXCEPT !.componentTree =
                  Put(state.componentTree, parentId,
                      [parent EXCEPT !.children = newChildren])])
\* case ACTIONS.REORDER_COMPONENTS
ReduceReorder(state, parentId, oldIndex, newIndex) ==
  IF ~Has(state.componentTree, parentId)
       \/ ~state.componentTree[parentId].childrenIsArray
    THEN Ok(state)
    ELSE LET parent == state.componentTree[parentId]
             cut == SpliceDeleteOne(parent.children, oldIndex)
             movedId == IF cut.removed = <<>> THEN Undefined ELSE cut.removed[1]
             newChildren == SpliceInsert(cut.rest, newIndex, movedId)
         IN Ok([state EXCEPT !.componentTree =
                  Put(state.componentTree, parentId,
                      [parent EXCEPT !.children = newChildren])])

\* case ACTIONS.MOVE_COMPONENT; targetIndex is <<>> when undefined
ReduceMove(state, componentId, targetParentId, targetIndex) ==
  LET tree == state.componentTree
  IN IF ~Has(tree, componentId) \/ ~Has(tree, tree[componentId].parentId)
          \/ ~Has(tree, targetParentId) \/ ~tree[targetParentId].childrenIsArray
       THEN Ok(state)
     ELSE LET component == tree[componentId]
              sourceParent == tree[component.parentId]
              targetParent == tree[targetParentId]
          IN IF ~sourceParent.childrenIsArray THEN Throw(state, "TypeError")
             ELSE LET sourceChildren == FilterOut(sourceParent.children, componentId)
                      targetChildren ==
                        IF targetIndex # <<>> /\ targetIndex[1] >= 0
                          THEN SpliceInsert(targetParent.children, targetIndex[1], componentId)
                          ELSE Append(targetParent.children, componentId)
                      t1 == Put(tree, sourceParent.id,
                                [sourceParent EXCEPT !.children = sourceChildren])
                      t2 == Put(t1, targetParentId,
                                [targetParent EXCEPT !.children = targetChildren])
                      t3 == Put(t2, componentId,
                                [component EXCEPT !.parentId = targetParentId])
                  IN Ok([state EXCEPT !.componentTree = t3])

\* case ACTIONS.SET_COLUMNS_COUNT; count is an integer, newIds are the ids
\* generateComponentId returns, in order
MinColumns == 2
MaxColumns == 4

SafeCount(count) == Min(MaxColumns, Max(MinColumns, count))

RECURSIVE AddColumns(_, _, _)
\* the grow loop stopping after its first round
AddColumns_OneRound(tree, componentId, newIds) ==
  IF newIds = <<>> THEN tree
  ELSE Put(tree, Head(newIds),
           [id |-> Head(newIds), type |-> "column",
            parentId |-> componentId,
            properties |-> getDefaultProperties("column"),
            childrenIsArray |-> TRUE, children |-> <<>>])
AddColumns(tree, componentId, newIds) ==
  IF newIds = <<>> THEN tree
  ELSE AddColumns(Put(tree, Head(newIds),
                      [id |-> Head(newIds), type |-> "column",
                       parentId |-> componentId,
                       properties |-> getDefaultProperties("column"),
                       childrenIsArray |-> TRUE, children |-> <<>>]),
                  componentId, Tail(newIds))

\* how many ids SET_COLUMNS_COUNT asks generateComponentId for
ColumnsToAdd(state, componentId, count) ==
  IF ~Has(state.componentTree, componentId)
       \/ state.componentTree[componentId].type # "columns"
    THEN 0
    ELSE LET columnsComponent == state.componentTree[componentId]
             currentCount == IF columnsComponent.childrenIsArray
                               THEN Len(columnsComponent.children) ELSE 0
         IN Max(SafeCount(count) - currentCount, 0)

\* SET_COLUMNS_COUNT with a guard that only asks whether the node exists
ReduceSetColumnsCount_AnyType(state, componentId, count, newIds) ==
  IF ~Has(state.componentTree, componentId)
    THEN Ok(state)
    ELSE LET columnsComponent == state.componentTree[componentId]
             safeCount == SafeCount(count)
             currentChildren == IF columnsComponent.childrenIsArray
                                  THEN columnsComponent.children ELSE <<>>
             currentCount == Len(currentChildren)
             cut == SpliceTail(currentChildren, safeCount)
             grown == AddColumns(state.componentTree, componentId, newIds)
             shrunk == RemoveAll(state.componentTree, cut.removed)
             nextChildren == IF safeCount > currentCount THEN currentChildren \o newIds
                             ELSE IF safeCount < currentCount THEN cut.rest
                             ELSE currentChildren
             newTree == IF safeCount > currentCount THEN grown
                        ELSE IF safeCount < currentCount THEN shrunk.tree
                        ELSE state.componentTree
         IN IF safeCount < currentCount /\ shrunk.overflow
              THEN Throw(state, "RangeError")
              ELSE Ok([state EXCEPT !.componentTree =
                         Put(newTree, componentId,
                             [columnsComponent EXCEPT
                                !.properties = Spread(columnsComponent.properties,
                                                      [columns |-> safeCount]),
                                !.childrenIsArray = TRUE,
                                !.children = nextChildren])])
ReduceSetColumnsCount(state, componentId, count, newIds) ==
  IF ~Has(state.componentTree, componentId)
       \/ state.componentTree[componentId].type # "columns"
    THEN Ok(state)
    ELSE LET columnsComponent == state.componentTree[componentId]
             safeCount == SafeCount(count)
             currentChildren == IF columnsComponent.childrenIsArray
                                  THEN columnsComponent.children ELSE <<>>
             currentCount == Len(currentChildren)
             cut == SpliceTail(currentChildren, safeCount)
             grown == AddColumns(state.componentTree, componentId, newIds)
             shrunk == RemoveAll(state.componentTree, cut.removed)
             nextChildren == IF safeCount > currentCount THEN currentChildren \o newIds
                             ELSE IF safeCount < currentCount THEN cut.rest
                             ELSE currentChildren
             newTree == IF safeCount > currentCount THEN grown
                        ELSE IF safeCount < currentCount THEN shrunk.tree
                        ELSE state.componentTree
         IN IF safeCount < currentCount /\ shrunk.overflow
              THEN Throw(state, "RangeError")
              ELSE Ok([state EXCEPT !.componentTree =
                         Put(newTree, componentId,
                             [columnsComponent EXCEPT
                                !.properties = Spread(columnsComponent.properties,
                                                      [columns |-> safeCount]),
                                !.childrenIsArray = TRUE,
                                !.children = nextChildren])])

\* case ACTIONS.SELECT_COMPONENT
ReduceSelect(state, componentId) ==
  Ok([state EXCEPT !.selectedComponentId = componentId])


NewComponent(id, type) ==
  [id |-> id, type |-> type, parentId |-> Undefined,
   properties |-> getDefaultProperties(type),
   childrenIsArray |-> canHaveChildren(type), children |-> <<>>]

\* dispatch of a further action in the same handler: the reducer runs on
\* the state the earlier actions gave, and not at all once one has thrown
DispatchAdd(res, component, parentId, index) ==
  IF res.error # "none" THEN res ELSE ReduceAdd(res.state, component, parentId, index)

DispatchSelect(res, componentId) ==
  IF res.error # "none" THEN res ELSE ReduceSelect(res.state, componentId)

RECURSIVE AddColumnChildren(_, _, _)

\* the loop over the default columns leaving after its first round
AddColumnChildren_OneRound(res, columnsComponentId, newIds) ==
  IF newIds = <<>> THEN res
  ELSE DispatchAdd(res, NewComponent(Head(newIds), "column"), columnsComponentId, <<>>)

AddColumnChildren(res, columnsComponentId, newIds) ==
  IF newIds = <<>> THEN res
  ELSE AddColumnChildren(
         DispatchAdd(res, NewComponent(Head(newIds), "column"), columnsComponentId, <<>>),
         columnsComponentId, Tail(newIds))

\* EditorProvider.addComponent(type, parentId, index); newIds are the ids
\* generateComponentId returns, in order.  All dispatches of one call are
\* reduced before the store's state is read again.
DefaultColumnsCount ==
  LET c == getDefaultProperties("columns").columns IN IF c = 0 THEN 2 ELSE c

IdsToAdd(type) == IF type = "columns" THEN 1 + DefaultColumnsCount ELSE 1

addComponent(state, type, parentId, index, newIds) ==
  IF type = "columns"
    THEN LET columnsComponentId == newIds[1]
             added == ReduceAdd(state, NewComponent(columnsComponentId, "columns"),
                                parentId, index)
             filled == AddColumnChildren(added, columnsComponentId, Tail(newIds))
         IN DispatchSelect(filled, columnsComponentId)
    ELSE ReduceAdd(state, NewComponent(newIds[1], type), parentId, index)

\* ------------------------------------------------------------- the machine
\* the store's state, what the last command raised, the last command
\* (its type and the id it names) and the number of commands so far
VARIABLES componentTree, selectedComponentId, error, lastAction, steps
vars == <<componentTree, selectedComponentId, error, lastAction, steps>>

State == [componentTree |-> componentTree, selectedComponentId |-> selectedComponentId]

\* the store takes the state a command returns; a command that throws
\* leaves the state as it was
Commit(res, action) ==
  /\ componentTree' = IF res.error = "none" THEN res.state.componentTree
                      ELSE componentTree
  /\ selectedComponentId' = IF res.error = "none" THEN res.state.selectedComponentId
                            ELSE selectedComponentId
  /\ error' = res.error
  /\ lastAction' = action
  /\ steps' = steps + 1

Init ==
  /\ componentTree = initialState.componentTree
  /\ selectedComponentId = initialState.selectedComponentId
  /\ error = "none"
  /\ lastAction = [type |-> "INIT", id |-> RootId]
  /\ steps = 0

\* ids mentioned anywhere in the state: generateComponentId returns none of them
Mentioned ==
  (DOMAIN componentTree) \cup {selectedComponentId}
    \cup UNION {{componentTree[k].children[i] : i \in 1..Len(componentTree[k].children)}
                  : k \in DOMAIN componentTree}
    \cup {componentTree[k].parentId : k \in DOMAIN componentTree}

\* generateComponentId returns an id that is not in use.  Commands only
\* compare ids for equality, so the n ids of one command are taken to be the
\* first n unused names; the set is empty when the names have run out.
RECURSIVE LeastIds(_, _, _)
LeastIds(i, n, used) ==
  IF n = 0 \/ i > MaxNodes THEN <<>>
  ELSE IF IdNames[i] \in used THEN LeastIds(i + 1, n, used)
  ELSE <<IdNames[i]>> \o LeastIds(i + 1, n - 1, used)

FreshIds(n) == {q \in {LeastIds(1, n, Mentioned)} : Len(q) = n}

\* the component types of the palette that commands are issued with
PaletteTypes == {"text", "columns"}
IndexArgs == (0 - 1) .. MaxIndex
OptIndexArgs == {<<>>} \cup {<<i>> : i \in IndexArgs}
CountArgs == (MinColumns - 1) .. (MaxColumns + 1)
\* the properties patches updateComponent is issued with
PatchArgs == {[maxWidth |-> 700]}

\* addComponent(type, parentId, index)
AddComponentStep(type, parentId, index, newIds) ==
  Commit(addComponent(State, type, parentId, index, newIds),
         [type |-> "ADD_COMPONENT", id |-> newIds[1]])

AddComponent ==
  /\ steps < MaxSteps
  /\ \E type \in PaletteTypes, index \in OptIndexArgs :
       \E newIds \in FreshIds(IdsToAdd(type)) :
         \* the caller cannot name an id that is yet to be generated
         \E parentId \in Ids \ {newIds[i] : i \in 1..Len(newIds)} :
           AddComponentStep(type, parentId, index, newIds)

\* removeComponent(componentId)
RemoveComponentStep(componentId) ==
  Commit(ReduceRemove(State, componentId),
         [type |-> "REMOVE_COMPONENT", id |-> componentId])

RemoveComponent ==
  /\ steps < MaxSteps
  /\ \E componentId \in Ids : RemoveComponentStep(componentId)

\* updateComponent(componentId, {properties: patch}), as the template
\* settings of the property panel issue it
UpdateComponentStep(componentId, patch) ==
  Commit(ReduceUpdate(State, componentId, patch),
         [type |-> "UPDATE_COMPONENT", id |-> componentId])

UpdateComponent ==
  /\ steps < MaxSteps
  /\ \E patch \in PatchArgs : UpdateComponentStep(RootId, patch)

\* reorderComponents(parentId, oldIndex, newIndex)
ReorderComponentsStep(parentId, oldIndex, newIndex) ==
  Commit(ReduceReorder(State, parentId, oldIndex, newIndex),
         [type |-> "REORDER_COMPONENTS", id |-> parentId])

ReorderComponents ==
  /\ steps < MaxSteps
  /\ \E parentId \in Ids, oldIndex \in IndexArgs, newIndex \in IndexArgs :
       ReorderComponentsStep(parentId, oldIndex, newIndex)

\* moveComponent(componentId, targetParentId, targetIndex)
MoveComponentStep(componentId, targetParentId, targetIndex) ==
  Commit(ReduceMove(State, componentId, targetParentId, targetIndex),
         [type |-> "MOVE_COMPONENT", id |-> componentId])

MoveComponent ==
  /\ steps < MaxSteps
  /\ \E componentId \in Ids, targetParentId \in Ids, targetIndex \in OptIndexArgs :
       MoveComponentStep(componentId, targetParentId, targetIndex)

\* setColumnsCount(componentId, count)
SetColumnsCountStep(componentId, count, newIds) ==
  Commit(ReduceSetColumnsCount(State, componentId, count, newIds),
         [type |-> "SET_COLUMNS_COUNT", id |-> componentId])

SetColumnsCount ==
  /\ steps < MaxSteps
  /\ \E componentId \in Ids, count \in CountArgs :
       \E newIds \in FreshIds(ColumnsToAdd(State, componentId, count)) :
         SetColumnsCountStep(componentId, count, newIds)

\* selectComponent(componentId)
SelectComponent ==
  /\ steps < MaxSteps
  /\ \E componentId \in DOMAIN componentTree :
       Commit(ReduceSelect(State, componentId),
              [type |-> "SELECT_COMPONENT", id |-> componentId])

\* resetEditor()
ResetEditor ==
  /\ steps < MaxSteps
  /\ Commit(Ok(initialState), [type |-> "RESET", id |-> RootId])

Next ==
  \/ AddComponent
  \/ RemoveComponent
  \/ UpdateComponent
  \/ ReorderComponents
  \/ MoveComponent
  \/ SetColumnsCount
  \/ SelectComponent
  \/ ResetEditor

Spec == Init /\ [][Next]_vars

\* ------------------------------------------------------ tree predicates
ChildIds(node) == {node.children[i] : i \in 1..Len(node.children)}

\* how often id occurs in a children list
Occurrences(arr, id) == Cardinality({i \in 1..Len(arr) : arr[i] = id})

RECURSIVE DownFrom(_, _, _)
DownFrom(tree, frontier, seen) ==
  LET next == (UNION {ChildIds(tree[k]) : k \in frontier \cap DOMAIN tree}) \ seen
  IN IF next = {} THEN seen ELSE DownFrom(tree, next, seen \cup next)

\* the ids reached from id over one or more children links
Descendants(tree, id) == DownFrom(tree, {id}, {})

RECURSIVE UpFrom(_, _, _)
UpFrom(tree, frontier, seen) ==
  LET next == {tree[k].parentId : k \in frontier \cap DOMAIN tree} \ seen
  IN IF next = {} THEN seen ELSE UpFrom(tree, next, seen \cup next)

\* the ids reached from id over one or more parentId links
Ancestors(tree, id) == UpFrom(tree, {id}, {})

Acyclic(tree) ==
  \A k \in DOMAIN tree : k \notin Descendants(tree, k) /\ k \notin Ancestors(tree, k)

ReferentialIntegrity(tree) ==
  /\ \A k \in DOMAIN tree : \A c \in ChildIds(tree[k]) :
       c \in DOMAIN tree /\ tree[c].parentId = k
  /\ \A k \in (DOMAIN tree) \ {RootId} : tree[k].parentId \in DOMAIN tree

ColumnsShape(tree) ==
  \A k \in DOMAIN tree :
    tree[k].type = "columns" =>
      /\ Len(tree[k].children) >= MinColumns
      /\ Len(tree[k].children) <= MaxColumns
      /\ \A c \in ChildIds(tree[k]) : c \in DOMAIN tree /\ tree[c].type = "column"

\* ------------------------------------------------------------- the claims

\* C1: after any sequence of commands no node is its own transitive ancestor,
\* over parentId links or over children links.
C1_Acyclic == Acyclic(componentTree)

\* C2: a move whose component, current parent and target exist, the target
\* having a children list, leaves the component with parentId = target, in
\* no other node's children and exactly once in the target's children.
C2_MoveAtomicity ==
  [][\A componentId \in Ids, targetParentId \in Ids, targetIndex \in OptIndexArgs :
       ( /\ steps < MaxSteps
         /\ Has(componentTree, componentId)
         /\ Has(componentTree, componentTree[componentId].parentId)
         /\ Has(componentTree, targetParentId)
         /\ componentTree[targetParentId].childrenIsArray
         /\ MoveComponentStep(componentId, targetParentId, targetIndex) )
       => /\ componentTree'[componentId].parentId = targetParentId
          /\ Occurrences(componentTree'[targetParentId].children, componentId) = 1
          /\ \A k \in (DOMAIN componentTree') \ {targetParentId} :
               componentId \notin ChildIds(componentTree'[k])]_vars

\* C3: in every reachable state every listed child is a key whose parentId is
\* the listing node, and every non-root node's parentId is a key.
C3_ReferentialIntegrity == ReferentialIntegrity(componentTree)

\* C4: in every reachable state every columns node has between 2 and 4
\* children, all of type column.
C4_ColumnsShape == ColumnsShape(componentTree)

C6_RemoveRootOrAbsentNoOp ==
  [][(/\ lastAction'.type = "REMOVE_COMPONENT"
      /\ (lastAction'.id = RootId \/ ~Has(componentTree, lastAction'.id)))
       => (componentTree' = componentTree /\ error' = "none")]_vars

\* C7: addComponent under a parent that is not a key, or that has no children
\* list, returns the tree unchanged and raises no error.
C7_AddIllegalParentNoOp ==
  [][\A type \in PaletteTypes, index \in OptIndexArgs, parentId \in Ids :
       \A newIds \in FreshIds(IdsToAdd(type)) :
         ( /\ steps < MaxSteps
           /\ parentId \notin {newIds[i] : i \in 1..Len(newIds)}
           /\ (~Has(componentTree, parentId) \/ ~componentTree[parentId].childrenIsArray)
           /\ AddComponentStep(type, parentId, index, newIds) )
         => (componentTree' = componentTree /\ error' = "none")]_vars

\* an index outside the index range of the parent's children
OutOfRange(tree, parentId, i) == i < 0 \/ i >= Len(tree[parentId].children)

\* C8: reorderComponents returns the tree unchanged when the parent is absent
\* or oldIndex or newIndex lies outside the index range of its children.
C8_ReorderOutOfRangeNoOp ==
  [][\A parentId \in Ids, oldIndex \in IndexArgs, newIndex \in IndexArgs :
       ( /\ steps < MaxSteps
         /\ ReorderComponentsStep(parentId, oldIndex, newIndex)
         /\ \/ ~Has(componentTree, parentId)
            \/ OutOfRange(componentTree, parentId, oldIndex)
            \/ OutOfRange(componentTree, parentId, newIndex) )
       => componentTree' = componentTree]_vars

\* C9: moveComponent returns the tree unchanged when the component, its
\* parent or the target is absent or the target has no children list;
\* otherwise the component is detached from its old parent and attached to
\* the target in the same transition.
C9_MoveAllOrNothing ==
  [][\A componentId \in Ids, targetParentId \in Ids, targetIndex \in OptIndexArgs :
       ( /\ steps < MaxSteps
         /\ MoveComponentStep(componentId, targetParentId, targetIndex) )
       => IF \/ ~Has(componentTree, componentId)
             \/ ~Has(componentTree, componentTree[componentId].parentId)
             \/ ~Has(componentTree, targetParentId)
             \/ ~componentTree[targetParentId].childrenIsArray
            THEN componentTree' = componentTree
            ELSE LET oldParent == componentTree[componentId].parentId
                 IN /\ componentTree'[componentId].parentId = targetParentId
                    /\ componentId \in ChildIds(componentTree'[targetParentId])
                    /\ oldParent # targetParentId =>
                         componentId \notin ChildIds(componentTree'[oldParent])]_vars

MaxColumnSteps == 4

AppendComponent ==
  /\ steps < MaxColumnSteps
  /\ \E type \in PaletteTypes :
       \E newIds \in FreshIds(IdsToAdd(type)) :
         \E parentId \in Ids \ {newIds[i] : i \in 1..Len(newIds)} :
           AddComponentStep(type, parentId, <<>>, newIds)

AppendMove ==
  /\ steps < MaxColumnSteps
  /\ \E componentId \in Ids, targetParentId \in Ids :
       MoveComponentStep(componentId, targetParentId, <<>>)

ResizeColumns ==
  /\ steps < MaxColumnSteps
  /\ \E componentId \in Ids, count \in CountArgs :
       \E newIds \in FreshIds(ColumnsToAdd(State, componentId, count)) :
         SetColumnsCountStep(componentId, count, newIds)

NextColumns ==
  \/ AppendComponent
  \/ AppendMove
  \/ ResizeColumns

SpecColumns == Init /\ [][NextColumns]_vars

\* C11: after setColumnsCount(columnsId, n) on a columns node, the node's
\* properties.columns and the length of its children both equal
\* min(4, max(2, n)), whatever the number of children was before.
C11_SetColumnsCountClamps ==
  [][\A componentId \in Ids, count \in CountArgs :
       \A newIds \in FreshIds(ColumnsToAdd(State, componentId, count)) :
         ( /\ Has(componentTree, componentId)
           /\ componentTree[componentId].type = "columns"
           /\ SetColumnsCountStep(componentId, count, newIds) )
         => /\ componentTree'[componentId].properties.columns
                 = Min(MaxColumns, Max(MinColumns, count))
            /\ Len(componentTree'[componentId].children)
                 = Min(MaxColumns, Max(MinColumns, count))]_vars

\* C12: when setColumnsCount lowers the number of children from k to c,
\* exactly the trailing k - c column ids are removed, and no removed column
\* nor any of its descendants remains a key of the tree.
C12_ShrinkRemovesTrailing ==
  [][\A componentId \in Ids, count \in CountArgs :
       ( /\ Has(componentTree, componentId)
         /\ componentTree[componentId].type = "columns"
         /\ Min(MaxColumns, Max(MinColumns, count))
              < Len(componentTree[componentId].children)
         /\ SetColumnsCountStep(componentId, count, <<>>) )
       => LET c == Min(MaxColumns, Max(MinColumns, count))
              old == componentTree[componentId].children
              trailing == {old[i] : i \in (c + 1)..Len(old)}
              gone == trailing
                        \cup UNION {Descendants(componentTree, r) : r \in trailing}
          IN /\ componentTree'[componentId].children = SubSeq(old, 1, c)
             /\ DOMAIN componentTree' = (DOMAIN componentTree) \ gone]_vars

\* C13: setColumnsCount(columnsId, count) returns the tree unchanged when
\* columnsId is absent or the node at columnsId has a type other than
\* columns, for every count.
C13_SetColumnsCountGuard ==
  [][lastAction'.type = "SET_COLUMNS_COUNT" =>
     \A componentId \in {lastAction'.id}, count \in CountArgs :
       ( /\ \/ ~Has(componentTree, componentId)
            \/ componentTree[componentId].type # "columns"
         /\ SetColumnsCountStep(componentId, count, <<>>) )
       => /\ componentTree' = componentTree
          /\ selectedComponentId' = selectedComponentId
          /\ error' = "none"]_vars

\* setColumnsCount has just been issued on a text node
C13_Witness ==
  /\ lastAction = [type |-> "SET_COLUMNS_COUNT", id |-> "c1"]
  /\ Has(componentTree, "c1")
  /\ componentTree["c1"].type = "text"

\* C14: when setColumnsCount raises a columns node from k to c columns, the
\* first k children and their subtrees are unchanged and in the same order,
\* and c - k new nodes of type column with the default properties, empty
\* children and parentId = columnsId are appended after them, each under an
\* id that was not a key of the tree before.
C14_GrowAppendsColumns ==
  [][lastAction'.type = "SET_COLUMNS_COUNT" =>
     \A componentId \in {lastAction'.id}, count \in CountArgs :
       \A newIds \in FreshIds(ColumnsToAdd(State, componentId, count)) :
         ( /\ Has(componentTree, componentId)
           /\ componentTree[componentId].type = "columns"
           /\ Min(MaxColumns, Max(MinColumns, count))
                > Len(componentTree[componentId].children)
           /\ SetColumnsCountStep(componentId, count, newIds) )
         => LET c == Min(MaxColumns, Max(MinColumns, count))
                old == componentTree[componentId].children
                k == Len(old)
                new == componentTree'[componentId].children
                added == {new[i] : i \in (k + 1)..Len(new)}
            IN /\ Len(new) = c
               /\ SubSeq(new, 1, k) = old
               /\ Cardinality(added) = c - k
               /\ added \cap DOMAIN componentTree = {}
               /\ DOMAIN componentTree' = (DOMAIN componentTree) \cup added
               /\ \A n \in added :
                    componentTree'[n]
                      = [id |-> n, type |-> "column", parentId |-> componentId,
                         properties |-> getDefaultProperties("column"),
                         childrenIsArray |-> TRUE, children |-> <<>>]
               /\ \A x \in (DOMAIN componentTree) \ {componentId} :
                    componentTree'[x] = componentTree[x]]_vars

\* a columns node that setColumnsCount has just raised from 2 to 4 columns
C14_Witness ==
  /\ lastAction = [type |-> "SET_COLUMNS_COUNT", id |-> "c1"]
  /\ error = "none"
  /\ Has(componentTree, "c1")
  /\ componentTree["c1"].children = <<"c2", "c3", "c4", "c5">>

\* ------------------------------------- updates of any field, and loading
\* case ACTIONS.UPDATE_COMPONENT with any updates object: updates is a record
\* with some of the fields id, type, parentId, children, properties;
\* {...component, ...updates, properties: {...component.properties, ...updates.properties}}
MergeUpdates(component, updates) ==
  LET fields == [k \in (DOMAIN updates) \cap {"id", "type", "parentId"} |-> updates[k]]
      merged == Spread(component, fields)
      withChildren == IF "children" \in DOMAIN updates
                        THEN [merged EXCEPT !.childrenIsArray = TRUE,
                                            !.children = updates.children]
                        ELSE merged
  IN [withChildren EXCEPT
        !.properties = IF "properties" \in DOMAIN updates
                         THEN Spread(component.properties, updates.properties)
                         ELSE component.properties]

ReduceUpdateWith(state, componentId, updates) ==
  IF ~Has(state.componentTree, componentId) THEN Ok(state)
  ELSE Ok([state EXCEPT !.componentTree =
             Put(state.componentTree, componentId,
                 MergeUpdates(state.componentTree[componentId], updates))])

\* the normalisation with the defaults spread over the stored properties
normalizeComponentTree_DefaultsWin(payload) ==
  IF payload = <<>> \/ ~Has(payload[1], RootId)
    THEN initialState.componentTree
    ELSE LET tree == payload[1]
             root == tree[RootId]
         IN Put(tree, RootId,
                [root EXCEPT
                   !.id = RootId,
                   !.type = "root",
                   !.properties = Spread(root.properties, getDefaultProperties("root")),
                   !.childrenIsArray = TRUE,
                   !.children = IF root.childrenIsArray THEN root.children ELSE <<>>])

\* normalizeComponentTree(componentTree); payload is <<>> for no tree and
\* <<tree>> for a tree.  A persisted root without properties has the empty
\* record, one whose children is not an array has childrenIsArray FALSE.
normalizeComponentTree(payload) ==
  IF payload = <<>> \/ ~Has(payload[1], RootId)
    THEN initialState.componentTree
    ELSE LET tree == payload[1]
             root == tree[RootId]
         IN Put(tree, RootId,
                [root EXCEPT
                   !.id = RootId,
                   !.type = "root",
                   !.properties = Spread(getDefaultProperties("root"), root.properties),
                   !.childrenIsArray = TRUE,
                   !.children = IF root.childrenIsArray THEN root.children ELSE <<>>])

\* LOAD_TEMPLATE taking the tree as it comes
ReduceLoadTemplate_Raw(state, payload) ==
  Ok([componentTree |-> IF payload = <<>> THEN initialState.componentTree
                        ELSE payload[1],
      selectedComponentId |-> "null"])

\* case ACTIONS.LOAD_TEMPLATE
ReduceLoadTemplate(state, payload) ==
  Ok([componentTree |-> normalizeComponentTree(payload),
      selectedComponentId |-> "null"])

\* runs of MaxUpdateSteps commands in which updateComponent is issued with
\* any updates object and templates are loaded
MaxUpdateSteps == 3

\* the updates objects updateComponent is issued with
UpdateArgs ==
  { [properties |-> [maxWidth |-> 100]],
    [properties |-> [maxWidth |-> 2000]],
    [properties |-> [padding |-> [top |-> 5]]],
    [properties |-> [text |-> "Hi"]],
    [type |-> "text"],
    [parentId |-> "c1"],
    [id |-> "x"],
    [children |-> <<"c1">>] }

\* the trees a stored template holds: the default tree of the Template
\* model, a root with a large maxWidth, and a tree saved with a root that
\* names a parent next to a second node of type root, a root without
\* maxWidth and without a children array, and a tree without a root entry
PersistedTrees ==
  { [root |-> [id |-> RootId, type |-> "root", parentId |-> Undefined,
               properties |-> [k \in {} |-> 0],
               childrenIsArray |-> TRUE, children |-> <<>>]],
    [root |-> [id |-> RootId, type |-> "root", parentId |-> Undefined,
               properties |-> [maxWidth |-> 2000],
               childrenIsArray |-> TRUE, children |-> <<>>]],
    [root |-> [id |-> RootId, type |-> "root", parentId |-> "c1",
               properties |-> [maxWidth |-> 600],
               childrenIsArray |-> TRUE, children |-> <<>>],
     c1 |-> [id |-> "c1", type |-> "root", parentId |-> Undefined,
             properties |-> [maxWidth |-> 600],
             childrenIsArray |-> TRUE, children |-> <<RootId>>]],
    [root |-> [id |-> "r", type |-> "text", parentId |-> Undefined,
               properties |-> [gap |-> 8],
               childrenIsArray |-> FALSE, children |-> <<>>]],
    [c1 |-> [id |-> "c1", type |-> "text", parentId |-> RootId,
             properties |-> getDefaultProperties("text"),
             childrenIsArray |-> FALSE, children |-> <<>>]] }

LoadArgs == {<<>>} \cup {<<tree>> : tree \in PersistedTrees}

AddAnywhere ==
  /\ steps < MaxUpdateSteps
  /\ \E type \in PaletteTypes :
       \E newIds \in FreshIds(IdsToAdd(type)) :
         \E parentId \in Ids \ {newIds[i] : i \in 1..Len(newIds)} :
           AddComponentStep(type, parentId, <<>>, newIds)

\* updateComponent(componentId, updates)
UpdateWithStep(componentId, updates) ==
  Commit(ReduceUpdateWith(State, componentId, updates),
         [type |-> "UPDATE_COMPONENT", id |-> componentId])

UpdateWith ==
  /\ steps < MaxUpdateSteps
  /\ \E componentId \in Ids, updates \in UpdateArgs :
       UpdateWithStep(componentId, updates)

\* loadTemplate(componentTree)
LoadTemplateStep(payload) ==
  Commit(ReduceLoadTemplate(State, payload),
         [type |-> "LOAD_TEMPLATE", id |-> RootId])

LoadTemplate ==
  /\ steps < MaxUpdateSteps
  /\ \E payload \in LoadArgs : LoadTemplateStep(payload)

RemoveAnywhere ==
  /\ steps < MaxUpdateSteps
  /\ \E componentId \in Ids : RemoveComponentStep(componentId)

ResetAnywhere ==
  /\ steps < MaxUpdateSteps
  /\ Commit(Ok(initialState), [type |-> "RESET", id |-> RootId])

MoveAnywhere ==
  /\ steps < MaxUpdateSteps
  /\ \E componentId \in Ids, targetParentId \in Ids :
       MoveComponentStep(componentId, targetParentId, <<>>)

NextUpdate ==
  \/ AddAnywhere
  \/ UpdateWith
  \/ LoadTemplate
  \/ RemoveAnywhere
  \/ MoveAnywhere
  \/ ResetAnywhere

SpecUpdate == Init /\ [][NextUpdate]_vars

\* the properties whose value is a record (getDefaultProperties)
NestedProperties == {"padding"}

\* every key of old that patch does not mention, at the top level and inside
\* the nested records, has in new the value it has in old
KeepsUnmentioned(old, patch, new) ==
  /\ \A k \in (DOMAIN old) \ (DOMAIN patch) :
       k \in DOMAIN new /\ new[k] = old[k]
  /\ \A k \in NestedProperties \cap (DOMAIN old) \cap (DOMAIN patch) :
       /\ k \in DOMAIN new
       /\ \A j \in (DOMAIN old[k]) \ (DOMAIN patch[k]) :
            j \in DOMAIN new[k] /\ new[k][j] = old[k][j]

\* C15: updateComponent(id, updates) merges updates.properties deeply into
\* the node's properties: every existing key the patch does not mention, at
\* the top level and inside nested records such as padding, keeps its value.
C15_UpdateMergesDeeply ==
  [][\A componentId \in Ids, updates \in UpdateArgs :
       ( /\ Has(componentTree, componentId)
         /\ "properties" \in DOMAIN updates
         /\ UpdateWithStep(componentId, updates) )
       => KeepsUnmentioned(componentTree[componentId].properties,
                           updates.properties,
                           componentTree'[componentId].properties)]_vars

\* the range of the email width (PropertyPanel, emailGenerator)
MinWidth == 320
MaxWidth == 1200

\* C16: in every state reached by any sequence of commands, including
\* updateComponent on root with any numeric maxWidth and LOAD_TEMPLATE of a
\* persisted tree with any or no root maxWidth, root.properties.maxWidth is
\* present and lies within [320, 1200].
C16_RootMaxWidthInRange ==
  /\ Has(componentTree, RootId)
  /\ "maxWidth" \in DOMAIN componentTree[RootId].properties
  /\ componentTree[RootId].properties.maxWidth >= MinWidth
  /\ componentTree[RootId].properties.maxWidth <= MaxWidth

\* C17: in every state reached by any sequence of commands, the tree holds
\* under key "root" a node with id "root", type root and no parentId, and
\* no other node has type root; no command removes, retypes or re-parents it.
C17_RootFixed ==
  /\ Has(componentTree, RootId)
  /\ componentTree[RootId].id = RootId
  /\ componentTree[RootId].type = "root"
  /\ componentTree[RootId].parentId = Undefined
  /\ \A k \in (DOMAIN componentTree) \ {RootId} : componentTree[k].type # "root"

\* C18: in every state reached by any sequence of commands, only nodes of
\* type root, columns or column have a non-empty children list; a node of a
\* leaf type never has a child, whatever parentId is given to addComponent
\* or target to moveComponent.
C18_LeavesHaveNoChildren ==
  \A k \in DOMAIN componentTree :
    Len(componentTree[k].children) > 0
      => componentTree[k].type \in {"root", "columns", "column"}

\* arr with x put in at 0-based position pos, the other entries in order
InsertAt(arr, pos, x) ==
  SubSeq(arr, 1, pos) \o <<x>> \o SubSeq(arr, pos + 1, Len(arr))

\* the valid position nearest to index: 0 below the range, len above it
NearestPosition(index, len) == Min(len, Max(0, index))

\* C19: addComponent(type, parentId, index) on an existing container parent
\* adds exactly one node with the defaults for type and parentId set, and
\* places its id in parent.children at position index when 0 <= index <=
\* length, at the end when index is omitted, and at the nearest valid
\* position (0 or length) when index is outside that range; the existing
\* children keep their relative order.  (For type columns the node count is
\* left out: that call also adds the column children.)
C19_AddPlacesAtIndex ==
  [][\A type \in PaletteTypes, index \in OptIndexArgs :
       \A newIds \in FreshIds(IdsToAdd(type)) :
         \A parentId \in Ids \ {newIds[i] : i \in 1..Len(newIds)} :
           ( /\ Has(componentTree, parentId)
             /\ componentTree[parentId].type \in {"root", "columns", "column"}
             /\ componentTree[parentId].childrenIsArray
             /\ AddComponentStep(type, parentId, index, newIds) )
           => LET old == componentTree[parentId].children
                  id == newIds[1]
                  pos == IF index = <<>> THEN Len(old)
                         ELSE NearestPosition(index[1], Len(old))
              IN /\ Has(componentTree', id)
                 /\ componentTree'[id].type = type
                 /\ componentTree'[id].parentId = parentId
                 /\ componentTree'[id].properties = getDefaultProperties(type)
                 /\ type # "columns"
                      => DOMAIN componentTree' = (DOMAIN componentTree) \cup {id}
                 /\ componentTree'[parentId].children = InsertAt(old, pos, id)]_vars

\* C20: for every parent and every pair of in-range indices i, j,
\* reorderComponents(parent, i, j) followed by reorderComponents(parent, j, i)
\* restores parent.children to its original order.
C20_ReorderInverse ==
  \A parentId \in DOMAIN componentTree :
    \A i \in 0..MaxIndex, j \in 0..MaxIndex :
      ( /\ componentTree[parentId].childrenIsArray
        /\ i < Len(componentTree[parentId].children)
        /\ j < Len(componentTree[parentId].children) )
      => LET once == ReduceReorder(State, parentId, i, j)
             twice == ReduceReorder(once.state, parentId, j, i)
         IN /\ once.error = "none"
            /\ twice.error = "none"
            /\ twice.state.componentTree[parentId].children
                 = componentTree[parentId].children
            /\ twice.state = State

\* reorderComponents has just been issued on a columns node with three
\* children
C20_Witness ==
  /\ lastAction = [type |-> "REORDER_COMPONENTS", id |-> "c1"]
  /\ error = "none"
  /\ Has(componentTree, "c1")
  /\ Len(componentTree["c1"].children) = 3
  /\ Cardinality(ChildIds(componentTree["c1"])) = 3
  /\ ChildIds(componentTree["c1"]) \subseteq DOMAIN componentTree
  /\ componentTree["c1"].children # <<"c2", "c3", "c4">>

\* ------------------------------------------------ persistence of the tree
\* A stored node is the JSON object that reaches the database: a record
\* whose DOMAIN is the keys present.  JSON drops a key whose value is
\* undefined and writes an undefined array entry as null.
JsonArray(children) ==
  [i \in 1..Len(children) |-> IF children[i] = Undefined THEN "null" ELSE children[i]]

\* the mutant: children kept only when the list has entries
serializeNode_NonEmptyChildren(component) ==
  LET always == [id |-> component.id, type |-> component.type,
                 properties |-> component.properties]
      withParent == IF component.parentId = Undefined THEN always
                    ELSE Spread(always, [parentId |-> component.parentId])
  IN IF component.childrenIsArray /\ Len(component.children) > 0
       THEN Spread(withParent, [children |-> JsonArray(component.children)])
       ELSE withParent

\* the body of the loop of serializeComponentTree:
\* {id, type, parentId, properties: properties || {}, children: children || undefined}
serializeNode(component) ==
  LET always == [id |-> component.id, type |-> component.type,
                 properties |-> component.properties]
      withParent == IF component.parentId = Undefined THEN always
                    ELSE Spread(always, [parentId |-> component.parentId])
  IN IF component.childrenIsArray
       THEN Spread(withParent, [children |-> JsonArray(component.children)])
       ELSE withParent

serializeComponentTree(tree) == [id \in DOMAIN tree |-> serializeNode(tree[id])]

\* the node the client holds for a stored node
ParseNode(json) ==
  [id |-> json.id, type |-> json.type,
   parentId |-> IF "parentId" \in DOMAIN json THEN json.parentId ELSE Undefined,
   properties |-> IF "properties" \in DOMAIN json THEN json.properties
                  ELSE [k \in {} |-> 0],
   childrenIsArray |-> "children" \in DOMAIN json,
   children |-> IF "children" \in DOMAIN json THEN json.children ELSE <<>>]

\* deserializeComponentTree(serializedTree); stored is <<>> when there is
\* nothing stored and <<map>> otherwise.  The result is what the response
\* carries to loadTemplate.
deserializeComponentTree(stored) ==
  IF stored = <<>>
    THEN <<(RootId :> [id |-> RootId, type |-> "root", parentId |-> Undefined,
                       properties |-> [k \in {} |-> 0],
                       childrenIsArray |-> TRUE, children |-> <<>>])>>
    ELSE <<[id \in DOMAIN stored[1] |-> ParseNode(stored[1][id])]>>

\* what the editor holds after a stored tree is loaded
deserialize(stored) == normalizeComponentTree(deserializeComponentTree(stored))

\* a tree that keeps the invariants of the store: the root is in place,
\* every node is stored under its id, children and parentId agree, no cycle
ValidTree(tree) ==
  /\ Has(tree, RootId)
  /\ tree[RootId].type = "root"
  /\ tree[RootId].parentId = Undefined
  /\ \A k \in DOMAIN tree : tree[k].id = k
  /\ ReferentialIntegrity(tree)
  /\ Acyclic(tree)

\* C21: for every valid tree t produced by the store,
\* deserialize(serialize(t)) is structurally equal to t: the same ids and,
\* for each id, the same type, parentId, properties and children order.
C21_RoundTrip ==
  ValidTree(componentTree)
    => deserialize(<<serializeComponentTree(componentTree)>>) = componentTree

\* a valid tree with a columns -> column -> text hierarchy
C21_Witness ==
  /\ ValidTree(componentTree)
  /\ \E a \in DOMAIN componentTree, b \in DOMAIN componentTree, c \in DOMAIN componentTree :
       /\ componentTree[a].type = "columns" /\ componentTree[a].parentId = RootId
       /\ componentTree[b].type = "column" /\ componentTree[b].parentId = a
       /\ componentTree[c].type = "text" /\ componentTree[c].parentId = b

\* C22: deserialization is idempotent: for every input, including absent
\* input, input lacking a root entry, and a root lacking properties or
\* children, deserializing what was deserialized gives the same tree.
C22_DeserializeIdempotent ==
  [][lastAction'.type = "LOAD_TEMPLATE" =>
     \A payload \in LoadArgs :
       LoadTemplateStep(payload)
         => /\ normalizeComponentTree(<<componentTree'>>) = componentTree'
            /\ normalizeComponentTree(<<deserialize(<<>>)>>) = deserialize(<<>>)]_vars

\* a root stored without maxWidth and without children has just been loaded
C22_Witness ==
  /\ lastAction.type = "LOAD_TEMPLATE"
  /\ componentTree[RootId].properties = [maxWidth |-> 600, gap |-> 8]
  /\ componentTree[RootId].children = <<>>

\* C23: deserializing data that is absent or has no root entry yields a
\* fresh tree of only a root node with the default properties (maxWidth 600)
\* and no children; deserializing data that has a root yields a root whose
\* properties contain maxWidth, the persisted root properties taking
\* precedence over the defaults.
C23_DeserializeFallback ==
  [][lastAction'.type = "LOAD_TEMPLATE" =>
     \A payload \in LoadArgs :
       LoadTemplateStep(payload)
         => /\ deserialize(<<>>) = componentTree' \/ payload # <<>>
            /\ IF payload = <<>> \/ ~Has(payload[1], RootId)
                 THEN /\ DOMAIN componentTree' = {RootId}
                      /\ componentTree'[RootId]
                           = [id |-> RootId, type |-> "root", parentId |-> Undefined,
                              properties |-> [maxWidth |-> 600],
                              childrenIsArray |-> TRUE, children |-> <<>>]
                 ELSE /\ "maxWidth" \in DOMAIN componentTree'[RootId].properties
                      /\ \A k \in DOMAIN payload[1][RootId].properties :
                           componentTree'[RootId].properties[k]
                             = payload[1][RootId].properties[k]]_vars

\* a root stored with maxWidth 2000 has just been loaded
C23_Witness ==
  /\ lastAction.type = "LOAD_TEMPLATE"
  /\ componentTree[RootId].properties.maxWidth = 2000

\* ------------------------------------- ids as generateComponentId gives them
\* generateComponentId builds an id from Date.now() and Math.random(): which
\* id a call returns is not determined by the state.  Here a command takes
\* any n different names that are not in use, in any order, over runs of
\* MaxIdSteps commands.
MaxIdSteps == 2

RECURSIVE AnyIds(_, _)
AnyIds(n, used) ==
  IF n = 0 THEN {<<>>}
  ELSE UNION {{<<i>> \o q : q \in AnyIds(n - 1, used \cup {i})} : i \in CompIds \ used}

generateComponentId(n) == AnyIds(n, Mentioned)

AddWithAnyIds ==
  /\ steps < MaxIdSteps
  /\ \E type \in PaletteTypes, parentId \in DOMAIN componentTree :
       \E newIds \in generateComponentId(IdsToAdd(type)) :
         AddComponentStep(type, parentId, <<>>, newIds)

ResizeWithAnyIds ==
  /\ steps < MaxIdSteps
  /\ \E componentId \in DOMAIN componentTree, count \in CountArgs :
       \E newIds \in generateComponentId(ColumnsToAdd(State, componentId, count)) :
         SetColumnsCountStep(componentId, count, newIds)

NextIds ==
  \/ AddWithAnyIds
  \/ ResizeWithAnyIds

SpecIds == Init /\ [][NextIds]_vars

\* C24: the store is a deterministic reducer: the same command with the same
\* arguments on the same tree gives structurally equal trees in any two
\* runs, setColumnsCount that raises the column count included (the ids of
\* the appended columns are the same in both runs).
C24_Deterministic ==
  \A componentId \in DOMAIN componentTree, count \in CountArgs :
    \A ids1 \in generateComponentId(ColumnsToAdd(State, componentId, count)),
       ids2 \in generateComponentId(ColumnsToAdd(State, componentId, count)) :
      ReduceSetColumnsCount(State, componentId, count, ids1)
        = ReduceSetColumnsCount(State, componentId, count, ids2)

\* C25: the set of node ids changes only through creation and destruction:
\* updateComponent, reorderComponents, moveComponent and selectComponent
\* leave the key set of the tree unchanged, addComponent and a growing
\* setColumnsCount only add keys, removeComponent and a shrinking
\* setColumnsCount only remove keys.
C25_KeySetFrame ==
  [][LET before == DOMAIN componentTree
         after == DOMAIN componentTree'
         type == lastAction'.type
     IN /\ type \in {"UPDATE_COMPONENT", "REORDER_COMPONENTS", "MOVE_COMPONENT",
                     "SELECT_COMPONENT"}
             => after = before
        /\ type = "ADD_COMPONENT" => before \subseteq after
        /\ type = "REMOVE_COMPONENT" => after \subseteq before
        /\ type = "SET_COLUMNS_COUNT"
             => \/ after = before
                \/ /\ before \subseteq after
                   /\ Len(componentTree'[lastAction'.id].children)
                        > Len(componentTree[lastAction'.id].children)
                \/ /\ after \subseteq before
                   /\ Len(componentTree'[lastAction'.id].children)
                        < Len(componentTree[lastAction'.id].children)]_vars

\* ------------------------------------------------------------ the compiler
\* A text is a sequence of characters.  A rendered fragment is a record of
\* the values the template of its component is filled with; a renderer gives
\* [error, html], html being the sequence of fragments, empty for ''.
Specials == {"&", "<", ">", "\"", "'"}

\* escapeHTML without the entry for the apostrophe
EscapeChar_FourEntities(char) ==
  CASE char = "&" -> "&amp;"
    [] char = "<" -> "&lt;"
    [] char = ">" -> "&gt;"
    [] char = "\"" -> "&quot;"
    [] OTHER -> char

\* the map of escapeHTML
EscapeChar(char) ==
  CASE char = "&" -> "&amp;"
    [] char = "<" -> "&lt;"
    [] char = ">" -> "&gt;"
    [] char = "\"" -> "&quot;"
    [] char = "'" -> "&#39;"
    [] OTHER -> char

\* String(text || '').replace(/[&<>"']/g, (char) => map[char])
escapeHTML(text) == [i \in 1..Len(text) |-> EscapeChar(text[i])]

\* a destructured property with its default
Prop(properties, key, default) ==
  IF key \in DOMAIN properties THEN properties[key] ELSE default

Rendered(fragment) == [error |-> "none", html |-> <<fragment>>]
Nothing == [error |-> "none", html |-> <<>>]
Raised == [error |-> "TypeError", html |-> <<>>]

\* destructuring component.properties raises when the node has none
HasProperties(component) == "properties" \in DOMAIN component

textToHTML(component) ==
  IF ~HasProperties(component) THEN Raised
  ELSE Rendered([tag |-> "text", id |-> component.id,
                 text |-> escapeHTML(Prop(component.properties, "text", <<>>))])

headingToHTML(component) ==
  IF ~HasProperties(component) THEN Raised
  ELSE Rendered([tag |-> "heading",
                 level |-> Prop(component.properties, "level", 2),
                 text |-> escapeHTML(Prop(component.properties, "text", <<>>))])

buttonToHTML(component) ==
  IF ~HasProperties(component) THEN Raised
  ELSE Rendered([tag |-> "button",
                 href |-> Prop(component.properties, "url", "#"),
                 text |-> escapeHTML(Prop(component.properties, "text",
                                          <<"C", "l", "i", "c", "k", " ", "m", "e">>))])

\* context is the maxContainerWidth handed down, 0 when there is none
imageToHTML(component, context) ==
  IF ~HasProperties(component) THEN Raised
  ELSE LET width == Prop(component.properties, "width", 600)
           fitToContainer == Prop(component.properties, "fitToContainer", TRUE)
           containerWidth == IF context = 0 THEN 600 ELSE context
           requestedWidth == IF width = 0 THEN containerWidth ELSE width
           safeWidth == Min(requestedWidth, containerWidth)
       IN Rendered([tag |-> "image",
                    src |-> Prop(component.properties, "src", ""),
                    alt |-> escapeHTML(Prop(component.properties, "alt", <<>>)),
                    width |-> IF fitToContainer THEN safeWidth ELSE requestedWidth,
                    styleWidth |-> IF fitToContainer THEN "100%" ELSE "px",
                    styleWidthPx |-> IF fitToContainer THEN 0 ELSE requestedWidth,
                    styleMaxWidth |-> IF fitToContainer THEN "px" ELSE "100%",
                    styleMaxWidthPx |-> IF fitToContainer THEN safeWidth ELSE 0,
                    containerWidth |-> containerWidth])

dividerToHTML(component) ==
  IF ~HasProperties(component) THEN Raised
  ELSE Rendered([tag |-> "divider",
                 height |-> Prop(component.properties, "height", 1)])

spacerToHTML(component) ==
  IF ~HasProperties(component) THEN Raised
  ELSE Rendered([tag |-> "spacer",
                 height |-> Prop(component.properties, "height", 20)])

\* the first error of two renderings, or their fragments one after the other
Join(a, b) ==
  IF a.error # "none" THEN a
  ELSE IF b.error # "none" THEN b
  ELSE [error |-> "none", html |-> a.html \o b.html]

\* (columnPadding?.left || 10) + (columnPadding?.right || 10)
SidePadding(padding) ==
  (IF padding.left = 0 THEN 10 ELSE padding.left)
    + (IF padding.right = 0 THEN 10 ELSE padding.right)

\* Math.floor((usableWidth - gap * (columnsCount - 1)) / columnsCount)
ColumnContentMaxWidth(parentWidth, padding, gap, columnsCount) ==
  LET usableWidth == Max(100, parentWidth - (padding.left + padding.right))
  IN (usableWidth - gap * (columnsCount - 1)) \div columnsCount

\* the maxContainerWidth handed to the children of a column
ColumnContext(columnContentMaxWidth, columnPadding) ==
  Max(80, columnContentMaxWidth - SidePadding(columnPadding))

RECURSIVE componentToHTML(_, _, _)
RECURSIVE RenderChildren(_, _, _)
RECURSIVE RenderColumns(_, _, _, _)

\* children.map((childId) => componentToHTML(tree[childId], ...)).join('\n')
RenderChildren(children, tree, context) ==
  IF children = <<>> THEN Nothing
  ELSE Join(IF Has(tree, Head(children))
              THEN componentToHTML(tree[Head(children)], tree, context)
              ELSE Nothing,
            RenderChildren(Tail(children), tree, context))

\* the callback of component.children.map in columnsToHTML, column by column
RenderColumns(columnIds, tree, columnContentMaxWidth, gap) ==
  IF columnIds = <<>> THEN Nothing
  ELSE Join(
    IF ~Has(tree, Head(columnIds)) THEN Nothing
    ELSE LET column == tree[Head(columnIds)]
             columnProps == IF HasProperties(column) THEN column.properties
                            ELSE [k \in {} |-> 0]
             columnPadding == Prop(columnProps, "padding", Padding(10, 10, 10, 10))
             context == ColumnContext(columnContentMaxWidth, columnPadding)
             inner == RenderChildren(IF column.childrenIsArray THEN column.children
                                     ELSE <<>>,
                                     tree, context)
         IN IF inner.error # "none" THEN inner
            ELSE Rendered([tag |-> "column", id |-> Head(columnIds),
                           paddingRight |-> IF Len(columnIds) = 1 THEN 0 ELSE gap,
                           maxContainerWidth |-> context,
                           html |-> inner.html]),
    RenderColumns(Tail(columnIds), tree, columnContentMaxWidth, gap))

columnsToHTML(component, tree, context) ==
  IF ~component.childrenIsArray \/ Len(component.children) = 0 THEN Nothing
  ELSE LET properties == IF HasProperties(component) THEN component.properties
                         ELSE [k \in {} |-> 0]
           gap == Prop(properties, "gap", 16)
           padding == Prop(properties, "padding", Padding(10, 10, 10, 10))
           columnsCount == Len(component.children)
           parentWidth == IF context = 0 THEN 600 ELSE context
           columnContentMaxWidth ==
             ColumnContentMaxWidth(parentWidth, padding, gap, columnsCount)
           cells == RenderColumns(component.children, tree,
                                  columnContentMaxWidth, gap)
       IN IF cells.error # "none" THEN cells
          ELSE Rendered([tag |-> "columns", id |-> component.id,
                         columnWidth |-> 100 \div columnsCount,
                         parentWidth |-> parentWidth,
                         columnContentMaxWidth |-> columnContentMaxWidth,
                         html |-> cells.html])

componentToHTML(component, tree, context) ==
  CASE component.type = "text" -> textToHTML(component)
    [] component.type = "heading" -> headingToHTML(component)
    [] component.type = "button" -> buttonToHTML(component)
    [] component.type = "image" -> imageToHTML(component, context)
    [] component.type = "divider" -> dividerToHTML(component)
    [] component.type = "spacer" -> spacerToHTML(component)
    [] component.type = "columns" -> columnsToHTML(component, tree, context)
    [] OTHER -> Nothing

treeToHTML(tree, context) ==
  IF ~Has(tree, RootId) \/ ~tree[RootId].childrenIsArray
    THEN Nothing
    ELSE RenderChildren(tree[RootId].children, tree, context)

\* the ids componentToHTML is called with from inside its call for id: the
\* children of the children of a columns node
RenderCalls(tree, id) ==
  IF tree[id].type # "columns" \/ ~tree[id].childrenIsArray THEN {}
  ELSE UNION {ChildIds(tree[column]) \cap DOMAIN tree :
                column \in {c \in ChildIds(tree[id]) \cap DOMAIN tree :
                              tree[c].childrenIsArray}}

RECURSIVE RenderReach(_, _, _)
RenderReach(tree, frontier, seen) ==
  LET next == (UNION {RenderCalls(tree, k) : k \in frontier}) \ seen
  IN IF next = {} THEN seen ELSE RenderReach(tree, next, seen \cup next)

\* a call of componentToHTML that leads to a call for the same node never
\* returns: the engine raises RangeError when its stack is full
RecursesForever(tree) ==
  /\ Has(tree, RootId)
  /\ tree[RootId].childrenIsArray
  /\ LET first == ChildIds(tree[RootId]) \cap DOMAIN tree
     IN \E k \in first \cup RenderReach(tree, first, {}) :
          k \in RenderReach(tree, {k}, {})

\* the width of the email: 600 when root has no maxWidth or a falsy one
EmailMaxWidth(input) ==
  IF ~Has(input, RootId) \/ ~HasProperties(input[RootId])
       \/ "maxWidth" \notin DOMAIN input[RootId].properties
       \/ input[RootId].properties.maxWidth = 0
    THEN 600
    ELSE Min(1200, Max(320, input[RootId].properties.maxWidth))

\* a width attribute: width="100%" is Percent(100), width="600" is Pixels(600)
Percent(n) == [value |-> n, unit |-> "%"]
Pixels(n) == [value |-> n, unit |-> "px"]

\* a document shell whose content table is 600 wide whatever root says
generateEmailHTML_FixedWidth(input) ==
  LET emailMaxWidth == EmailMaxWidth(input)
      bodyContent == IF RecursesForever(input)
                       THEN [error |-> "RangeError", html |-> <<>>]
                       ELSE treeToHTML(input, emailMaxWidth)
  IN [error |-> bodyContent.error, maxWidth |-> emailMaxWidth,
      tables |-> IF bodyContent.error # "none" THEN <<>>
                 ELSE << [width |-> Percent(100), maxWidthPx |-> <<>>],
                         [width |-> Percent(100), maxWidthPx |-> <<600>>] >>,
      html |-> bodyContent.html]

\* generateEmailHTML(input) for a component tree: the outer table and the
\* content table of the document shell, and the fragments of the body
generateEmailHTML(input) ==
  LET emailMaxWidth == EmailMaxWidth(input)
      bodyContent == IF RecursesForever(input)
                       THEN [error |-> "RangeError", html |-> <<>>]
                       ELSE treeToHTML(input, emailMaxWidth)
  IN [error |-> bodyContent.error, maxWidth |-> emailMaxWidth,
      tables |-> IF bodyContent.error # "none" THEN <<>>
                 ELSE << [width |-> Percent(100), maxWidthPx |-> <<>>],
                         [width |-> Percent(100), maxWidthPx |-> <<emailMaxWidth>>] >>,
      html |-> bodyContent.html]

\* --------------------------------------------- the documents that are compiled
MaxTextLen == 2

Chars == {"a"} \cup Specials
Texts == UNION {[1..n -> Chars] : n \in 0..MaxTextLen}

\* a property that is present with value v[1], or absent when v is <<>>
Opt(key, v) == IF v = <<>> THEN [k \in {} |-> 0] ELSE [k \in {key} |-> v[1]]

Element(id, type, parentId, properties) ==
  [id |-> id, type |-> type, parentId |-> parentId, properties |-> properties,
   childrenIsArray |-> FALSE, children |-> <<>>]

Container(id, type, parentId, properties, children) ==
  [id |-> id, type |-> type, parentId |-> parentId, properties |-> properties,
   childrenIsArray |-> TRUE, children |-> children]

\* a node saved without a properties record
Bare(id, type, parentId, children) ==
  [id |-> id, type |-> type, parentId |-> parentId,
   childrenIsArray |-> children # <<>>, children |-> children]

RootOf(properties, children) ==
  Container(RootId, "root", Undefined, properties, children)

TextKinds == {"text", "heading", "button", "image"}
TextKey(type) == IF type = "image" THEN "alt" ELSE "text"

\* one node that carries a text, under root
TextTrees ==
  { [root |-> RootOf(getDefaultProperties("root"), <<"c1">>),
     c1 |-> Element("c1", type, RootId, [k \in {TextKey(type)} |-> text])] :
    type \in TextKinds, text \in Texts }

RootWidths == {<<>>, <<-5>>, <<0>>, <<100>>, <<320>>, <<600>>, <<1200>>, <<2000>>}
ImageWidths == {<<>>, <<0>>, <<50>>, <<700>>, <<1500>>}
FitChoices == {<<>>, <<TRUE>>, <<FALSE>>}

ImageOf(id, parentId, width, fit) ==
  Element(id, "image", parentId, Opt("width", width) @@ Opt("fitToContainer", fit))

\* one image under a root of some maxWidth
WidthTrees ==
  { [root |-> RootOf(Opt("maxWidth", maxWidth), <<"c1">>),
     c1 |-> ImageOf("c1", RootId, width, fit)] :
    maxWidth \in RootWidths, width \in ImageWidths, fit \in FitChoices }

Gaps == {<<>>, <<0>>, <<16>>, <<50>>}
WrapperPaddings == {<<>>, <<Padding(0, 0, 0, 0)>>, <<Padding(10, 20, 10, 20)>>,
                    <<Padding(0, 300, 0, 300)>>}
ColumnPaddings == {<<>>, <<Padding(0, 0, 0, 0)>>, <<Padding(10, 10, 10, 10)>>,
                   <<Padding(5, 200, 5, 200)>>}
ColumnCounts == MinColumns..MaxColumns

\* a columns node of n columns under root, an image in its first column
ColumnsTree(maxWidth, n, gap, padding, columnPadding, width, fit) ==
  LET columnIds == [i \in 1..n |-> IdNames[i + 1]]
  IN [id \in {RootId, "c1", "c6"} \cup {columnIds[i] : i \in 1..n} |->
       CASE id = RootId -> RootOf(Opt("maxWidth", maxWidth), <<"c1">>)
         [] id = "c1" -> Container("c1", "columns", RootId,
                                   Opt("gap", gap) @@ Opt("padding", padding),
                                   columnIds)
         [] id = "c6" -> ImageOf("c6", "c2", width, fit)
         [] OTHER -> Container(id, "column", "c1", Opt("padding", columnPadding),
                               IF id = "c2" THEN <<"c6">> ELSE <<>>)]

ColumnTrees ==
  { ColumnsTree(maxWidth, n, gap, padding, columnPadding, width, fit) :
    maxWidth \in {<<>>, <<320>>, <<600>>}, n \in ColumnCounts, gap \in Gaps,
    padding \in WrapperPaddings, columnPadding \in ColumnPaddings,
    width \in {<<50>>, <<700>>}, fit \in {<<TRUE>>, <<FALSE>>} }

\* columns inside a column, an image in the inner first column
NestedTrees ==
  { [root |-> RootOf(Opt("maxWidth", maxWidth), <<"c1">>),
     c1 |-> Container("c1", "columns", RootId, getDefaultProperties("columns"),
                      <<"c2", "c3">>),
     c2 |-> Container("c2", "column", "c1", getDefaultProperties("column"),
                      <<"c4">>),
     c3 |-> Container("c3", "column", "c1", getDefaultProperties("column"), <<>>),
     c4 |-> Container("c4", "columns", "c2", getDefaultProperties("columns"),
                      <<"c5", "c6">>),
     c5 |-> Container("c5", "column", "c4", getDefaultProperties("column"),
                      <<"c7">>),
     c6 |-> Container("c6", "column", "c4", getDefaultProperties("column"), <<>>),
     c7 |-> ImageOf("c7", "c5", width, fit)] :
    maxWidth \in RootWidths, width \in ImageWidths, fit \in FitChoices }

LeafTypes == {"text", "heading", "button", "image", "divider", "spacer"}

\* trees with one node that is missing, of an unknown type, or without a
\* properties record, next to a text node; a root without children array;
\* no root at all
MalformedTrees ==
  LET good == Element("c2", "text", RootId, [text |-> <<"a">>])
  IN { [root |-> RootOf(getDefaultProperties("root"), <<"c1", "c2">>),
        c2 |-> good] }
     \cup { [root |-> RootOf(getDefaultProperties("root"), <<"c1", "c2">>),
             c1 |-> Element("c1", "video", RootId, [text |-> <<"a">>]),
             c2 |-> good] }
     \cup { [root |-> RootOf(getDefaultProperties("root"), <<"c1", "c2">>),
             c1 |-> Bare("c1", type, RootId, <<>>),
             c2 |-> good] : type \in LeafTypes \cup {"columns", "video"} }
     \cup { [root |-> RootOf(getDefaultProperties("root"), <<"c1", "c2">>),
             c1 |-> Bare("c1", "columns", RootId, <<"c3", "c4">>),
             c2 |-> good,
             c3 |-> Bare("c3", "column", "c1", <<"c5">>),
             c5 |-> Bare("c5", type, "c3", <<>>)] : type \in {"text", "video"} }
     \cup { [root |-> Bare(RootId, "root", Undefined, <<>>), c2 |-> good] }
     \cup { [root |-> Bare(RootId, "root", Undefined, <<"c2">>), c2 |-> good] }
     \cup { [c2 |-> good] }

\* a root of maxWidth 700 with the text <b>Hi</b>
MarkupTrees ==
  { [root |-> RootOf([maxWidth |-> 700], <<"c1">>),
     c1 |-> Element("c1", "text", RootId,
                    [text |-> <<"<", "b", ">", "H", "i", "<", "/", "b", ">">>])] }

CompileTrees ==
  TextTrees \cup WidthTrees \cup ColumnTrees \cup NestedTrees \cup MalformedTrees
    \cup MarkupTrees

InitCompile ==
  /\ componentTree \in CompileTrees
  /\ selectedComponentId = Undefined
  /\ error = "none"
  /\ lastAction = [type |-> "INIT", id |-> RootId]
  /\ steps = 0

\* the export of the editor page: the document of the tree, or the error
\* the compiler raised
Compile ==
  /\ steps = 0
  /\ LET document == generateEmailHTML(componentTree)
     IN /\ error' = document.error
        /\ lastAction' = [type |-> "COMPILE", id |-> RootId, document |-> document]
  /\ steps' = steps + 1
  /\ UNCHANGED <<componentTree, selectedComponentId>>

NextCompile == Compile

SpecCompile == InitCompile /\ [][NextCompile]_vars

Compiled == lastAction.type = "COMPILE"

RECURSIVE Fragments(_)
\* every fragment of a rendering, those inside columns included
Fragments(html) ==
  IF html = <<>> THEN {}
  ELSE LET fragment == Head(html)
       IN {fragment}
            \cup (IF fragment.tag \in {"columns", "column"}
                    THEN Fragments(fragment.html) ELSE {})
            \cup Fragments(Tail(html))

\* the text a fragment shows: the alt of an image, the text of the others
Shown(fragment) == IF fragment.tag = "image" THEN fragment.alt ELSE fragment.text

Entity(char) ==
  CASE char = "&" -> "&amp;"
    [] char = "<" -> "&lt;"
    [] char = ">" -> "&gt;"
    [] char = "\"" -> "&quot;"
    [] char = "'" -> "&#39;"

\* C26: in a compiled document no text of a text, heading or button node and
\* no alt text of an image holds one of the characters & < > " ' itself: the
\* text a node under root was given appears with each of these characters
\* replaced by its entity and every other character as it was.
C26_TextEscaped ==
  Compiled /\ error = "none" =>
    /\ \A fragment \in Fragments(lastAction.document.html) :
         fragment.tag \in TextKinds =>
           \A i \in 1..Len(Shown(fragment)) : Shown(fragment)[i] \notin Specials
    /\ (Has(componentTree, RootId) /\ componentTree[RootId].childrenIsArray) =>
         \A i \in 1..Len(componentTree[RootId].children) :
           LET id == componentTree[RootId].children[i]
           IN (/\ Has(componentTree, id)
               /\ componentTree[id].type \in TextKinds
               /\ TextKey(componentTree[id].type) \in DOMAIN componentTree[id].properties)
              => LET given == componentTree[id].properties[TextKey(componentTree[id].type)]
                 IN \E fragment \in Fragments(lastAction.document.html) :
                      /\ fragment.tag = componentTree[id].type
                      /\ Len(Shown(fragment)) = Len(given)
                      /\ \A k \in 1..Len(given) :
                           Shown(fragment)[k] = IF given[k] \in Specials
                                                  THEN Entity(given[k])
                                                  ELSE given[k]

\* a heading given the text <' was compiled to &lt;&#39;
C26_Witness ==
  /\ Compiled
  /\ error = "none"
  /\ Has(componentTree, "c1")
  /\ componentTree["c1"].type = "heading"
  /\ "text" \in DOMAIN componentTree["c1"].properties
  /\ componentTree["c1"].properties.text = <<"<", "'">>
  /\ lastAction.document.html[1].text = <<"&lt;", "&#39;">>

\* the types componentToHTML has a case for
KnownTypes == LeafTypes \cup {"columns"}

\* C27: compile is total: for every tree it returns a document and raises no
\* error, and a missing child, a node of unknown type or a node without a
\* properties record leaves the text nodes next to it rendered.
C27_CompileTotal ==
  Compiled =>
    /\ error = "none"
    /\ (Has(componentTree, RootId) /\ componentTree[RootId].childrenIsArray) =>
         \A i \in 1..Len(componentTree[RootId].children) :
           LET id == componentTree[RootId].children[i]
           IN (/\ Has(componentTree, id)
               /\ componentTree[id].type = "text"
               /\ HasProperties(componentTree[id]))
              => \E k \in 1..Len(lastAction.document.html) :
                   lastAction.document.html[k].tag = "text"

\* C28: the width of the compiled document is root.properties.maxWidth
\* brought into 320..1200 for every integer maxWidth, and 600 when root has
\* no maxWidth.
C28_ContainerWidthClamped ==
  Compiled =>
    IF /\ Has(componentTree, RootId)
       /\ HasProperties(componentTree[RootId])
       /\ "maxWidth" \in DOMAIN componentTree[RootId].properties
      THEN lastAction.document.maxWidth
             = Min(MaxWidth, Max(MinWidth, componentTree[RootId].properties.maxWidth))
      ELSE lastAction.document.maxWidth = 600

\* the images among the fragments html, each at most available wide when it
\* fits its container
FitsWithin(html, available) ==
  \A k \in 1..Len(html) :
    (html[k].tag = "image" /\ html[k].styleMaxWidth = "px")
      => /\ html[k].width <= available
         /\ html[k].styleMaxWidthPx <= available

\* C29: an image with fitToContainer true is emitted, at any depth, with a
\* width attribute and a max-width of at most the width available in its
\* container (the document's width under root, the content width of its
\* column inside columns); an image with fitToContainer false is emitted with
\* the width it was given.
C29_ImageWidthClamped ==
  Compiled /\ error = "none" =>
    /\ FitsWithin(lastAction.document.html, lastAction.document.maxWidth)
    /\ \A column \in Fragments(lastAction.document.html) :
         column.tag = "column" => FitsWithin(column.html, column.maxContainerWidth)
    /\ \A id \in DOMAIN componentTree :
         (/\ componentTree[id].type = "image"
          /\ "fitToContainer" \in DOMAIN componentTree[id].properties
          /\ ~componentTree[id].properties.fitToContainer)
           => \E image \in Fragments(lastAction.document.html) :
                /\ image.tag = "image"
                /\ image.width = Prop(componentTree[id].properties, "width", 600)
                /\ image.styleWidthPx = image.width

\* the left and right padding a column node has, 10 each when it has none
OwnSidePadding(column) ==
  LET padding == IF HasProperties(column)
                   THEN Prop(column.properties, "padding", Padding(10, 10, 10, 10))
                   ELSE Padding(10, 10, 10, 10)
  IN padding.left + padding.right

\* C30: a columns node of n columns and gap g rendered with available width
\* W gives each column the width floor((W - g*(n-1)) / n), and the children
\* of a column that width minus the column's own left and right padding.
C30_ColumnWidths ==
  Compiled /\ error = "none" =>
    \A columns \in Fragments(lastAction.document.html) :
      columns.tag = "columns" =>
        LET node == componentTree[columns.id]
            n == Len(node.children)
            g == IF HasProperties(node) THEN Prop(node.properties, "gap", 16) ELSE 16
            each == (columns.parentWidth - g * (n - 1)) \div n
        IN /\ columns.columnContentMaxWidth = each
           /\ \A k \in 1..Len(columns.html) :
                columns.html[k].maxContainerWidth
                  = each - OwnSidePadding(componentTree[columns.html[k].id])

C32_SerializedShape ==
  \A id \in DOMAIN componentTree :
    LET node == componentTree[id]
        record == serializeComponentTree(componentTree)[id]
    IN /\ DOMAIN record \subseteq {"id", "type", "parentId", "properties", "children"}
       /\ {"id", "type", "properties"} \subseteq DOMAIN record
       /\ record.id = node.id
       /\ record.type = node.type
       /\ record.properties = node.properties
       /\ ("parentId" \in DOMAIN record) <=> (node.parentId # Undefined)
       /\ ("parentId" \in DOMAIN record) => record.parentId = node.parentId
       /\ ("children" \in DOMAIN record) <=> canHaveChildren(node.type)
       /\ ("children" \in DOMAIN record) =>
            /\ Len(record.children) = Len(node.children)
            /\ \A i \in 1..Len(node.children) :
                 node.children[i] # Undefined => record.children[i] = node.children[i]
       /\ id = RootId => "parentId" \notin DOMAIN record /\ "children" \in DOMAIN record

\* -------------------------------------------------------- the property panel
MaxPanelSteps == 6

\* hasContentInRemovedColumns(columnsComponentId, nextCount)
hasContentInRemovedColumns(tree, columnsComponentId, nextCount) ==
  IF ~Has(tree, columnsComponentId) \/ ~tree[columnsComponentId].childrenIsArray
    THEN FALSE
    ELSE LET children == tree[columnsComponentId].children
         IN \E i \in (nextCount + 1)..Len(children) :
              /\ Has(tree, children[i])
              /\ tree[children[i]].childrenIsArray
              /\ Len(tree[children[i]].children) > 0

\* Math.min(4, Math.max(2, value)) of the Column Count field
BoundedValue(value) == Min(MaxColumns, Max(MinColumns, value))

\* localProperties.columns || 2, localProperties being the properties of the
\* selected component
LocalColumns(state) ==
  LET columns == Prop(state.componentTree[state.selectedComponentId].properties,
                      "columns", 0)
  IN IF columns = 0 THEN DefaultColumnsCount ELSE columns

\* whether onChange opens the confirmation dialog for value
AsksConfirmation(state, value) ==
  /\ BoundedValue(value) < LocalColumns(state)
  /\ hasContentInRemovedColumns(state.componentTree, state.selectedComponentId,
                                BoundedValue(value))

\* the two commands onChange issues: handlePropertyChange('columns', value)
\* and setColumnsCount(selectedComponentId, value)
IssueColumnCount(state, boundedValue, newIds) ==
  LET updated == ReduceUpdate(state, state.selectedComponentId,
                              [columns |-> boundedValue])
  IN IF updated.error # "none" THEN updated
     ELSE ReduceSetColumnsCount(updated.state, state.selectedComponentId,
                                boundedValue, newIds)

\* onChange of the Column Count field with the number value; confirmed is the
\* answer window.confirm gives when it is asked
ColumnCountChangeStep(value, confirmed, newIds) ==
  LET asked == AsksConfirmation(State, value)
  IN Commit(IF asked /\ ~confirmed THEN Ok(State)
            ELSE IssueColumnCount(State, BoundedValue(value), newIds),
            [type |-> "COLUMN_COUNT_CHANGE", id |-> selectedComponentId,
             asked |-> asked, confirmed |-> asked /\ confirmed])

\* the field is shown while a columns node is selected
ColumnCountChange ==
  /\ steps < MaxPanelSteps
  /\ Has(componentTree, selectedComponentId)
  /\ componentTree[selectedComponentId].type = "columns"
  /\ \E value \in CountArgs, confirmed \in BOOLEAN :
       \E newIds \in FreshIds(ColumnsToAdd(State, selectedComponentId,
                                           BoundedValue(value))) :
         ColumnCountChangeStep(value, confirmed, newIds)

\* a columns node dropped on root, a text dropped into a column
PanelAdd ==
  /\ steps < MaxPanelSteps
  /\ \/ \E newIds \in FreshIds(IdsToAdd("columns")) :
          AddComponentStep("columns", RootId, <<>>, newIds)
     \/ \E newIds \in FreshIds(IdsToAdd("text")) :
          \E parentId \in DOMAIN componentTree :
            /\ componentTree[parentId].type = "column"
            /\ AddComponentStep("text", parentId, <<>>, newIds)

PanelSelect ==
  /\ steps < MaxPanelSteps
  /\ \E componentId \in DOMAIN componentTree :
       /\ componentTree[componentId].type = "columns"
       /\ Commit(ReduceSelect(State, componentId),
                 [type |-> "SELECT_COMPONENT", id |-> componentId])

\* updateComponent(componentId, {properties: {columns: count}}) on a columns node
PanelUpdateColumns ==
  /\ steps < MaxPanelSteps
  /\ \E componentId \in DOMAIN componentTree, count \in MinColumns..MaxColumns :
       /\ componentTree[componentId].type = "columns"
       /\ UpdateComponentStep(componentId, [columns |-> count])

\* a column moved to root or into another columns node
PanelMove ==
  /\ steps < MaxPanelSteps
  /\ \E componentId \in DOMAIN componentTree, targetParentId \in DOMAIN componentTree :
       /\ componentTree[componentId].type = "column"
       /\ componentTree[targetParentId].type \in {"root", "columns"}
       /\ MoveComponentStep(componentId, targetParentId, <<>>)

NextPanel ==
  \/ PanelAdd
  \/ PanelSelect
  \/ PanelUpdateColumns
  \/ PanelMove
  \/ ColumnCountChange

SpecPanel == Init /\ [][NextPanel]_vars

\* the children of componentId in tree that hold at least one child and that
\* the tree after no longer has
ContentLost(tree, after, componentId) ==
  {tree[componentId].children[i] : i \in 1..Len(tree[componentId].children)}
    \cap {id \in DOMAIN tree :
            /\ id \notin DOMAIN after
            /\ tree[id].childrenIsArray
            /\ Len(tree[id].children) > 0}

\* C33: a change of the Column Count field that deletes a column holding at
\* least one child reaches the store only after the user has confirmed; when
\* the confirmation is declined nothing is issued and the tree is unchanged;
\* a reduction that removes only empty columns is not asked about.
C33_ConfirmBeforeLoss ==
  [][lastAction'.type = "COLUMN_COUNT_CHANGE" =>
       /\ ContentLost(componentTree, componentTree', lastAction'.id) # {}
            => lastAction'.asked /\ lastAction'.confirmed
       /\ (lastAction'.asked /\ ~lastAction'.confirmed)
            => componentTree' = componentTree
       /\ (/\ ContentLost(componentTree, componentTree', lastAction'.id) = {}
           /\ componentTree' # componentTree)
            => ~lastAction'.asked]_vars

\* how often id occurs in all the children lists of the tree together
Placements(tree, id) ==
  LET at == [k \in DOMAIN tree |-> Occurrences(tree[k].children, id)]
      RECURSIVE Sum(_)
      Sum(keys) == IF keys = {} THEN 0
                   ELSE LET k == CHOOSE x \in keys : TRUE
                        IN at[k] + Sum(keys \ {k})
  IN Sum(DOMAIN tree)

\* C34: in every state reached by commands every node but root is listed
\* exactly once, in the children of the node its parentId names, and in no
\* other list; no id is listed twice and every node is reached from root.
C34_PlacedOnce ==
  \A id \in (DOMAIN componentTree) \ {RootId} :
    /\ Placements(componentTree, id) = 1
    /\ Has(componentTree, componentTree[id].parentId)
    /\ Occurrences(componentTree[componentTree[id].parentId].children, id) = 1
    /\ id \in Descendants(componentTree, RootId)

\* C35: in every state reached by commands selectedComponentId is null or
\* the id of a node of the tree; removing an ancestor of the selected node,
\* or its column through setColumnsCount, clears the selection.
C35_SelectionInTree ==
  selectedComponentId = initialState.selectedComponentId
    \/ Has(componentTree, selectedComponentId)

\* every columns node of the tree has properties.columns children
ColumnsInSync(tree) ==
  \A id \in DOMAIN tree :
    tree[id].type = "columns" =>
      Prop(tree[id].properties, "columns", 0) = Len(tree[id].children)

\* C36: in every state reached by commands, an updateComponent that patches
\* columns and the change of the column count in the property panel among
\* them, each columns node has as many children as its properties.columns
\* says.
C36_ColumnsPropertyInSync == ColumnsInSync(componentTree)

\* ------------------------------------------------- the export of the editor
MaxExportSteps == 4

\* a string of the store as the sequence of its characters
Characters(text) ==
  CASE text = "Enter your text here" ->
         <<"E", "n", "t", "e", "r", " ", "y", "o", "u", "r", " ",
           "t", "e", "x", "t", " ", "h", "e", "r", "e">>
    [] text = "Heading" -> <<"H", "e", "a", "d", "i", "n", "g">>
    [] text = "Click me" -> <<"C", "l", "i", "c", "k", " ", "m", "e">>
    [] text = "Image" -> <<"I", "m", "a", "g", "e">>
    [] text = "Hi" -> <<"H", "i">>

\* the tree of the store as the compiler reads it: the text and alt
\* properties character by character
AsDocument(tree) ==
  [id \in DOMAIN tree |->
     [tree[id] EXCEPT !.properties =
        [key \in DOMAIN tree[id].properties |->
           IF key \in {"text", "alt"} THEN Characters(tree[id].properties[key])
           ELSE tree[id].properties[key]]]]

ExportAdd ==
  /\ steps < MaxExportSteps
  /\ \E type \in PaletteTypes :
       \E newIds \in FreshIds(IdsToAdd(type)) :
         \E parentId \in DOMAIN componentTree :
           AddComponentStep(type, parentId, <<>>, newIds)

ExportMove ==
  /\ steps < MaxExportSteps
  /\ \E componentId \in DOMAIN componentTree, targetParentId \in DOMAIN componentTree :
       MoveComponentStep(componentId, targetParentId, <<>>)

\* updateComponent(componentId, {children: [componentId]})
ExportUpdate ==
  /\ steps < MaxExportSteps
  /\ \E componentId \in (DOMAIN componentTree) \ {RootId} :
       UpdateWithStep(componentId, [children |-> <<componentId>>])

\* handleExportHTML: the document of the tree the editor holds
ExportHTML ==
  /\ steps < MaxExportSteps
  /\ LET document == generateEmailHTML(AsDocument(componentTree))
     IN /\ error' = document.error
        /\ lastAction' = [type |-> "COMPILE", id |-> RootId, document |-> document]
  /\ steps' = steps + 1
  /\ UNCHANGED <<componentTree, selectedComponentId>>

NextExport ==
  \/ ExportAdd
  \/ ExportMove
  \/ ExportUpdate
  \/ ExportHTML

SpecExport == Init /\ [][NextExport]_vars

\* the fragments html come in the order children names their nodes
InOrder(html, children) ==
  \A p \in 1..Len(html), q \in 1..Len(html) :
    p < q => \E i \in 1..Len(children), j \in 1..Len(children) :
               /\ i < j
               /\ children[i] = html[p].id
               /\ children[j] = html[q].id

\* C37: every text node that is reached from root over children lists has
\* its escaped text in the compiled document, for every tree the commands
\* give, a column moved under root or columns inside a column included, and
\* the fragments of siblings come in the order of the children list.
C37_ReachableLeavesRendered ==
  Compiled /\ error = "none" =>
    /\ \A id \in Descendants(componentTree, RootId) \cap DOMAIN componentTree :
         componentTree[id].type = "text" =>
           \E fragment \in Fragments(lastAction.document.html) :
             /\ fragment.tag = "text"
             /\ fragment.id = id
             /\ fragment.text = escapeHTML(Characters(componentTree[id].properties.text))
    /\ InOrder(lastAction.document.html, componentTree[RootId].children)
    /\ \A fragment \in Fragments(lastAction.document.html) :
         fragment.tag \in {"columns", "column"} =>
           InOrder(fragment.html, componentTree[fragment.id].children)

RECURSIVE Visits(_)
\* the ids of the nodes the fragments html were rendered from, one entry for
\* every call that rendered one, in the order of the calls
Visits(html) ==
  IF html = <<>> THEN <<>>
  ELSE LET fragment == Head(html)
       IN <<fragment.id>>
            \o (IF fragment.tag \in {"columns", "column"}
                  THEN Visits(fragment.html) ELSE <<>>)
            \o Visits(Tail(html))

\* C38: compile terminates on every tree the commands give: the recursion
\* over the children, starting at root, renders no node twice and never
\* enters a cycle.
C38_CompileTerminates ==
  Compiled =>
    /\ error # "RangeError"
    /\ LET visits == Visits(lastAction.document.html)
       IN \A p \in 1..Len(visits), q \in 1..Len(visits) :
            p # q => visits[p] # visits[q]

RECURSIVE SumOver(_, _)
\* the sum of width[k] for k in 1..n
SumOver(width, n) == IF n = 0 THEN 0 ELSE width[n] + SumOver(width, n - 1)

\* the width handed to the children of every column of a rendered columns
\* node is at most the width the columns node was given
ChildWidthWithin(columns) ==
  \A k \in 1..Len(columns.html) :
    columns.html[k].maxContainerWidth <= columns.parentWidth

\* the widths of a rendered columns node laid side by side: the children's
\* width and the left and right padding of every column, the gaps after the
\* columns, and the left and right padding of the columns node
LaidOutWidth(tree, columns) ==
  LET node == tree[columns.id]
      padding == IF HasProperties(node)
                   THEN Prop(node.properties, "padding", Padding(10, 10, 10, 10))
                   ELSE Padding(10, 10, 10, 10)
      each == [k \in 1..Len(columns.html) |->
                 columns.html[k].maxContainerWidth
                   + OwnSidePadding(tree[columns.html[k].id])
                   + columns.html[k].paddingRight]
  IN SumOver(each, Len(columns.html)) + padding.left + padding.right

\* C39: width only shrinks on the way down: for every columns node rendered
\* with available width W >= 80 the width handed to the children of each
\* column is at most W, and the children's widths with the columns' paddings,
\* the gaps and the padding of the columns node sum to at most W.
C39_WidthOnlyShrinks ==
  Compiled /\ error = "none" =>
    \A columns \in Fragments(lastAction.document.html) :
      columns.tag = "columns" /\ columns.parentWidth >= 80 =>
        /\ ChildWidthWithin(columns)
        /\ LaidOutWidth(componentTree, columns) <= columns.parentWidth

\* arr without the entry at 0-based position pos
WithoutPosition(arr, pos) == SubSeq(arr, 1, pos) \o SubSeq(arr, pos + 2, Len(arr))

\* C40: reorderComponents with in-range indices yields a permutation of the
\* parent's children (same ids, same multiplicity, same length) in which the
\* moved id sits at newIndex and the other children keep their relative
\* order; no node other than the parent is changed, and no parentId changes.
C40_ReorderPermutes ==
  [][lastAction'.type = "REORDER_COMPONENTS" =>
       \A parentId \in DOMAIN componentTree :
         \A oldIndex \in 0..MaxIndex, newIndex \in 0..MaxIndex :
           ( /\ componentTree[parentId].childrenIsArray
             /\ oldIndex < Len(componentTree[parentId].children)
             /\ newIndex < Len(componentTree[parentId].children)
             /\ ReorderComponentsStep(parentId, oldIndex, newIndex) )
           => LET old == componentTree[parentId].children
                  new == componentTree'[parentId].children
              IN /\ error' = "none"
                 /\ Len(new) = Len(old)
                 /\ \A k \in 1..Len(old) : Occurrences(new, old[k]) = Occurrences(old, old[k])
                 /\ new[newIndex + 1] = old[oldIndex + 1]
                 /\ WithoutPosition(new, newIndex) = WithoutPosition(old, oldIndex)
                 /\ DOMAIN componentTree' = DOMAIN componentTree
                 /\ \A id \in DOMAIN componentTree :
                      id # parentId => componentTree'[id] = componentTree[id]
                 /\ componentTree'[parentId]
                      = [componentTree[parentId] EXCEPT !.children = new]
                 /\ selectedComponentId' = selectedComponentId]_vars

\* reorderComponents has just moved the first of three distinct children of
\* a columns node to the end
C40_Witness ==
  /\ lastAction = [type |-> "REORDER_COMPONENTS", id |-> "c1"]
  /\ error = "none"
  /\ Has(componentTree, "c1")
  /\ componentTree["c1"].type = "columns"
  /\ componentTree["c1"].children = <<"c3", "c4", "c2">>
  /\ \A id \in {"c2", "c3", "c4"} :
       Has(componentTree, id) /\ componentTree[id].parentId = "c1"
====
